---- MODULE Spec2Model ----
(***************************************************************************)
(* Consistent-hashing ring with virtual nodes                              *)
(* (consistent-hashing/README.md, the embedded main.go).                   *)
(*                                                                         *)
(* The cluster is the ConsistentHashing struct: the sorted ring of VNode   *)
(* positions, the position -> owner map, the per-node key/value stores and *)
(* the configured VNode count.  crc32.ChecksumIEEE is modelled as an       *)
(* arbitrary function from strings to a small position space, fixed when   *)
(* the program starts: every hash function over that space is explored,    *)
(* collisions included, up to two renamings that no operation can observe  *)
(* (see Canonical).                                                        *)
(***************************************************************************)
EXTENDS Integers, Sequences, FiniteSets, TLC

\* ---------------------------------------------------------------- bounds
\* largest ring position (the code uses uint32, i.e. 0 .. 2^32-1)
MaxPos == 1
\* largest configured number of virtual nodes per physical node
MaxVNodes == 1

Positions == 0..MaxPos

\* largest Bloom filter size m in bits, largest number k of hash rounds,
\* largest value of a 64-bit hash (sums h1 + i*h2 stay far below 2^64)
MaxM == 3
MaxK == 2
MaxHash == 2
\* bits per word of the bitset ([]uint64)
WordBits == 64

\* largest FNV-1a hash of a user ID
MaxIdHash == 4

\* largest bucket capacity and queue capacity, largest leak or token rate
\* per second, clock ticks per second, and the longest time, in clock ticks,
\* followed since the last refill
MaxCapacity == 2
MaxRate == 2
ClockTicks == 2
MaxElapsed == 3
\* const numShards
numShards == 4

\* physical node names, in the order main() creates its initial nodes
InitialOrder == <<"node-0", "node-1", "node-2">>
NodeNames == {InitialOrder[i] : i \in 1..Len(InitialOrder)}

\* the keys of the dataset, in the order main() generates them
UserKeys == <<"user_0", "user_1">>
Keys == {UserKeys[i] : i \in 1..Len(UserKeys)}

VARIABLES
    ring,       \* ch.ring    : sequence of positions
    hashMap,    \* ch.hashMap : position -> node name
    nodes,      \* ch.nodes   : node name -> (key -> value)
    vnodes,     \* ch.vnodes  : virtual nodes per physical node
    crc,        \* crc32.ChecksumIEEE restricted to the strings in use
    users,      \* the dataset built by main(): key -> value
    pc,         \* "new" (constructed), "running" (populated), "panicked"
    ret,        \* what the last call returned and printed
    ops,        \* goroutine -> where it stands in its AddNode / RemoveNode
    bf,         \* the BloomFilter struct (bloom-filter/app/bloom.go)
    bfAdded,    \* the items Add has been called with
    bfRet,      \* the last BloomFilter call and what it returned
    shards,     \* ShardManager.Shards: shard index -> (user ID -> document)
    fnv,        \* FNV-1a of a user ID, as getShardIndex computes it
    resp,       \* the last HTTP response of the sharding API
    gather,     \* the GetUserByName request in flight and its goroutines
    lb,         \* the LeakyBucket of SimulateLeakyBucket
    tb,         \* the TokenBucket of SimulateTokenBucket and its processor
    out         \* the last thing a rate limiter returned or did

ringVars == <<ring, hashMap, nodes, vnodes, crc, users, pc, ret, ops>>
bloomVars == <<bf, bfAdded, bfRet>>
shardVars == <<shards, fnv, resp, gather>>
rateVars == <<lb, tb, out>>

vars == <<ringVars, bloomVars, shardVars, rateVars>>

\* no rate limiter has been constructed
NoRateLimiter == lb = <<>> /\ tb = <<>> /\ out = <<>>

\* no ShardManager has been constructed
NoShardManager == shards = <<>> /\ fnv = <<>> /\ resp = <<>> /\ gather = <<>>

\* no ring has been constructed
NoRing ==
    /\ ring = <<>> /\ hashMap = <<>> /\ nodes = <<>> /\ vnodes = 0
    /\ crc = <<>> /\ users = <<>> /\ pc = "" /\ ret = <<>> /\ ops = <<>>

\* no Bloom filter has been constructed
NoBloomFilter == bf = <<>> /\ bfAdded = {} /\ bfRet = <<>>

\* ------------------------------------------------------------- Go maps
EmptyMap == [x \in {} |-> x]

MapPut(m, k, v) == [x \in (DOMAIN m) \cup {k} |-> IF x = k THEN v ELSE m[x]]

MapDelete(m, k) == [x \in (DOMAIN m) \ {k} |-> m[x]]

Range(s) == {s[i] : i \in DOMAIN s}

\* the nodes whose store holds key k
Loc(stores, k) == {n \in DOMAIN stores : k \in DOMAIN stores[n]}

\* ------------------------------------------------------------- hashing
\* fmt.Sprintf("%s#%d", nodeName, i)
VNodeKey(nodeName, i) == nodeName \o "#" \o ToString(i)

\* the strings that are ever hashed when v virtual nodes are configured
HashedStrings(v) == Keys \cup {VNodeKey(n, i) : n \in NodeNames, i \in 0..(v - 1)}

hashKey(key) == crc[key]

\* Symmetry reduction of the hash functions explored.  A node's VNodes are
\* appended together and the ring is sorted before it is read, and they are
\* removed as a set, so permuting the hashes of one node's VNode keys changes
\* nothing; the dataset is the whole of Keys or empty, so permuting the
\* hashes of the user keys only renames the records.  One representative of
\* each class is kept: hashes non-decreasing in the VNode index and in the
\* user index.
Canonical(h, v) ==
    /\ \A n \in NodeNames : \A i \in 1..(v - 1) :
          h[VNodeKey(n, i - 1)] <= h[VNodeKey(n, i)]
    /\ \A i \in 1..(Len(UserKeys) - 1) : h[UserKeys[i]] <= h[UserKeys[i + 1]]

\* the positions of a node's virtual nodes, in loop order i = 0 .. vnodes-1
VNodeHashes(nodeName) == [i \in 1..vnodes |-> hashKey(VNodeKey(nodeName, i - 1))]

\* a sort that leaves the ring in append order
SortRingAppendOrder(r) == r

\* sort.Slice(ch.ring, func(i, j int) bool { return ch.ring[i] < ch.ring[j] })
SortRing(r) == SortSeq(r, LAMBDA a, b : a < b)

\* ------------------------------------------------------------- GetNode
\* SearchLoop with the predicate ch.ring[i] > keyHash instead of >=
RECURSIVE SearchLoopStrict(_, _, _, _)
SearchLoopStrict(r, keyHash, i, j) ==
    IF i < j
    THEN LET h == (i + j) \div 2
         IN  IF ~(r[h + 1] > keyHash)
             THEN SearchLoopStrict(r, keyHash, h + 1, j)
             ELSE SearchLoopStrict(r, keyHash, i, h)
    ELSE i

\* sort.Search(n, f): the smallest index i in [0, n) with f(i), else n,
\* by bisection; indices are 0-based as in Go, the sequence is 1-based.
RECURSIVE SearchLoop(_, _, _, _)
SearchLoop(r, keyHash, i, j) ==
    IF i < j
    THEN LET h == (i + j) \div 2
         IN  IF ~(r[h + 1] >= keyHash)
             THEN SearchLoop(r, keyHash, h + 1, j)
             ELSE SearchLoop(r, keyHash, i, h)
    ELSE i

Search(r, keyHash) == SearchLoop(r, keyHash, 0, Len(r))

\* the index GetNode settles on: the search result, wrapped to 0 at the end
WrapIndex(idx, n) == IF idx = n THEN 0 ELSE idx

\* GetNode without the wrap-around: past the last position it names no node
GetNodeNoWrap(r, hm, key) ==
    IF Len(r) = 0
    THEN [node |-> "", err |-> "no nodes in the ring"]
    ELSE LET keyHash == hashKey(key)
             idx     == Search(r, keyHash)
         IN  IF idx = Len(r)
             THEN [node |-> "", err |-> "nil"]
             ELSE [node |-> IF r[idx + 1] \in DOMAIN hm THEN hm[r[idx + 1]] ELSE "",
                   err  |-> "nil"]

\* GetNode that returns no error for an empty ring
GetNodeSilent(r, hm, key) ==
    IF Len(r) = 0
    THEN [node |-> "", err |-> "nil"]
    ELSE LET keyHash  == hashKey(key)
             idx      == WrapIndex(Search(r, keyHash), Len(r))
             nodeHash == r[idx + 1]
         IN  [node |-> IF nodeHash \in DOMAIN hm THEN hm[nodeHash] ELSE "",
              err  |-> "nil"]

\* GetNode on the ring r and owner map hm; a missing map entry reads as ""
GetNode(r, hm, key) ==
    IF Len(r) = 0
    THEN [node |-> "", err |-> "no nodes in the ring"]
    ELSE LET keyHash  == hashKey(key)
             idx      == WrapIndex(Search(r, keyHash), Len(r))
             nodeHash == r[idx + 1]
         IN  [node |-> IF nodeHash \in DOMAIN hm THEN hm[nodeHash] ELSE "",
              err  |-> "nil"]

\* ------------------------------------------------------ ring mutation
\* the loop with ch.hashMap[hash] = vnodeKey: the owner recorded is the VNode
AppendVNodesOwnerVNode(r, hm, nodeName) ==
    LET hs == VNodeHashes(nodeName)
    IN  [ring    |-> r \o hs,
         hashMap |-> [p \in (DOMAIN hm) \cup Range(hs) |->
                        IF p \in Range(hs) THEN VNodeKey(nodeName, 0) ELSE hm[p]]]

\* the loop that appends a node's VNodes to the ring and records their owner
AppendVNodes(r, hm, nodeName) ==
    LET hs == VNodeHashes(nodeName)
    IN  [ring    |-> r \o hs,
         hashMap |-> [p \in (DOMAIN hm) \cup Range(hs) |->
                        IF p \in Range(hs) THEN nodeName ELSE hm[p]]]

\* the ring is rebuilt without the node's VNodes, the owner map is left alone
RemoveVNodesKeepOwner(r, hm, nodeName) ==
    LET hashesToRemove == Range(VNodeHashes(nodeName))
    IN  [ring    |-> SelectSeq(r, LAMBDA h : h \notin hashesToRemove),
         hashMap |-> hm]

\* the loops of RemoveNode that drop a node's VNodes from map and ring
RemoveVNodes(r, hm, nodeName) ==
    LET hashesToRemove == Range(VNodeHashes(nodeName))
    IN  [ring    |-> SelectSeq(r, LAMBDA h : h \notin hashesToRemove),
         hashMap |-> [p \in (DOMAIN hm) \ hashesToRemove |-> hm[p]]]

\* ------------------------------------------------------ data movement
\* the scan run against the ring as it was before the new VNodes were added
ScanKeysToMoveStale(stores, r, hm, nodeName) ==
    LET claimed(s) == {k \in DOMAIN stores[s] :
                         GetNode(ring, hashMap, k).node = nodeName}
    IN  [s \in {x \in (DOMAIN stores) \ {nodeName} : claimed(x) # {}} |-> claimed(s)]

\* AddNode step 2, the scan: source node -> the keys GetNode now gives to
\* nodeName (only sources with at least one such key get an entry)
ScanKeysToMove(stores, r, hm, nodeName) ==
    LET claimed(s) == {k \in DOMAIN stores[s] : GetNode(r, hm, k).node = nodeName}
    IN  [s \in {x \in (DOMAIN stores) \ {nodeName} : claimed(x) # {}} |-> claimed(s)]

\* ApplyMoves with the delete(ch.nodes[sourceNode], key) left out: the key is
\* copied to the new node and stays at its source
ApplyMovesCopy(stores, keysToMove, nodeName) ==
    LET moved == UNION {keysToMove[s] : s \in DOMAIN keysToMove}
        src(k) == CHOOSE s \in DOMAIN keysToMove : k \in keysToMove[s]
    IN  [n \in DOMAIN stores |->
           IF n = nodeName
           THEN [k \in (DOMAIN stores[n]) \cup moved |->
                   IF k \in moved THEN stores[src(k)][k] ELSE stores[n][k]]
           ELSE stores[n]]

\* AddNode step 2, the move: each recorded key leaves its source store and
\* enters the store of nodeName with the value it had at the source
ApplyMoves(stores, keysToMove, nodeName) ==
    LET moved == UNION {keysToMove[s] : s \in DOMAIN keysToMove}
        src(k) == CHOOSE s \in DOMAIN keysToMove : k \in keysToMove[s]
    IN  [n \in DOMAIN stores |->
           IF n = nodeName
           THEN [k \in (DOMAIN stores[n]) \cup moved |->
                   IF k \in moved THEN stores[src(k)][k] ELSE stores[n][k]]
           ELSE IF n \in DOMAIN keysToMove
                THEN [k \in (DOMAIN stores[n]) \ keysToMove[n] |-> stores[n][k]]
                ELSE stores[n]]

\* movesBySource[sourceNode]++ once per source node instead of once per key
MovesBySourceOnce(keysToMove) ==
    [s \in DOMAIN keysToMove |-> 1]

\* movesBySource[sourceNode]++ for every moved key
MovesBySource(keysToMove) ==
    [s \in DOMAIN keysToMove |-> Cardinality(keysToMove[s])]

\* Redistribute that replaces the destination's store by the arriving records
RedistributeReplacing(stores, r, hm, dataToMove, todo) ==
    LET dest(k) == GetNode(r, hm, k).node
        arriving(n) == {k \in todo : dest(k) = n}
    IN  [n \in DOMAIN stores |->
           IF arriving(n) = {}
           THEN stores[n]
           ELSE [k \in arriving(n) |-> dataToMove[k]]]

\* RemoveNode step 4 for the keys in todo: ch.nodes[newNode][key] = value
Redistribute(stores, r, hm, dataToMove, todo) ==
    LET dest(k) == GetNode(r, hm, k).node
        arriving(n) == {k \in todo : dest(k) = n}
    IN  [n \in DOMAIN stores |->
           [k \in (DOMAIN stores[n]) \cup arriving(n) |->
              IF k \in arriving(n) THEN dataToMove[k] ELSE stores[n][k]]]

\* movesByDest[newNode]++ once per destination instead of once per key
MovesByDestOnce(r, hm, dataToMove) ==
    [n \in {GetNode(r, hm, k).node : k \in DOMAIN dataToMove} |-> 1]

\* movesByDest[newNode]++ for every redistributed key
MovesByDest(r, hm, dataToMove) ==
    LET dest(k) == GetNode(r, hm, k).node
        dests == {dest(k) : k \in DOMAIN dataToMove}
    IN  [n \in dests |-> Cardinality({k \in DOMAIN dataToMove : dest(k) = n})]

\* main(): the initial nodes are appended to the ring one after the other
RECURSIVE AddInitialNodes(_, _, _)
AddInitialNodes(r, hm, names) ==
    IF names = <<>>
    THEN [ring |-> r, hashMap |-> hm]
    ELSE LET s == AppendVNodes(r, hm, Head(names))
         IN  AddInitialNodes(s.ring, s.hashMap, Tail(names))

\* main(): users[key] = "data_for_" + key for the first numUsers keys
MakeUsers(numUsers) ==
    [k \in {UserKeys[i] : i \in 1..numUsers} |-> "data_for_" \o k]

\* --------------------------------------------------------------- calls
\* op, arg: the call; node, err: what it returned; report: the move counts it
\* printed (the "already exists" message of AddNode is recorded as err)
\* the goroutines that call AddNode / RemoveNode on the shared cluster; the
\* struct holds no lock, so their statements interleave
Threads == {"t1", "t2"}

\* a goroutine's locals: the statement it stands before (pc), the nodeName
\* argument, the loop index i over the VNodes, the pairs <<sourceNode, key>>
\* of keysToMove still to move, the map dataToMove refers to (data; while
\* live it is still the map registered in ch.nodes), the keys of dataToMove
\* not yet visited (todo), the move counts so far, and the result
Idle ==
    [pc |-> "idle", name |-> "", i |-> 0, moves |-> {}, data |-> EmptyMap,
     live |-> FALSE, todo |-> {}, report |-> EmptyMap, err |-> "nil"]

Ret(op, arg, node, err, report) ==
    [op |-> op, arg |-> arg, node |-> node, err |-> err, report |-> report]

Init ==
    /\ ring = <<>>
    /\ hashMap = EmptyMap
    /\ nodes = EmptyMap
    /\ vnodes \in 1..MaxVNodes
    /\ crc \in [HashedStrings(vnodes) -> Positions]
    /\ Canonical(crc, vnodes)
    /\ users = EmptyMap
    /\ pc = "new"
    /\ ret = Ret("NewConsistentHashing", "", "", "nil", EmptyMap)
    /\ ops = [t \in Threads |-> Idle]
    /\ NoBloomFilter
    /\ NoShardManager
    /\ NoRateLimiter

\* main(): initialNodes nodes are put on the ring, the ring is sorted, and
\* the numUsers records of the dataset are stored on the node GetNode names
\* (numUsers is 0 or the whole of UserKeys)
Bootstrap(initialNodes, numUsers) ==
    /\ pc = "new"
    /\ LET names == SubSeq(InitialOrder, 1, initialNodes)
           s     == AddInitialNodes(ring, hashMap, names)
           r     == SortRing(s.ring)
           data  == MakeUsers(numUsers)
           empty == [x \in Range(names) |-> EmptyMap]
       IN  /\ ring' = r
           /\ hashMap' = s.hashMap
           /\ users' = data
           /\ nodes' = Redistribute(empty, r, s.hashMap, data, DOMAIN data)
           /\ ret' = Ret("main", "", "", "nil", EmptyMap)
    /\ pc' = "running"
    /\ UNCHANGED <<vnodes, crc, ops, bloomVars, shardVars, rateVars>>

\* the existence test with its result ignored: every name counts as absent
ExistsNever(nodeName) == FALSE

\* the existence test with its result ignored: every name counts as present
ExistsAlways(nodeName) == TRUE

\* _, exists := ch.nodes[nodeName]
Exists(nodeName) == nodeName \in DOMAIN nodes

\* AddNode for a name without a store, on the cluster (r, hm, stores): the
\* cluster it leaves and the move counts it prints
AddNodeOn(r, hm, stores, nodeName) ==
    LET stores1    == MapPut(stores, nodeName, EmptyMap)
        s          == AppendVNodes(r, hm, nodeName)
        r1         == SortRing(s.ring)
        keysToMove == ScanKeysToMove(stores1, r1, s.hashMap, nodeName)
    IN  [ring    |-> r1,
         hashMap |-> s.hashMap,
         nodes   |-> ApplyMoves(stores1, keysToMove, nodeName),
         report  |-> MovesBySource(keysToMove)]

\* RemoveNode without delete(ch.nodes, nodeName): the store stays registered
RemoveNodeOnKeepStore(r, hm, stores, nodeName) ==
    LET s == RemoveVNodes(r, hm, nodeName)
    IN  [ring       |-> s.ring,
         hashMap    |-> s.hashMap,
         stores1    |-> stores,
         dataToMove |-> IF nodeName \in DOMAIN stores
                        THEN stores[nodeName]
                        ELSE EmptyMap]

\* RemoveNode past its existence test, on the cluster (r, hm, stores), up to
\* the redistribution: the snapshot of the node's store, and the ring, the
\* owner map and the stores after steps 2 and 3.  Reading ch.nodes[nodeName]
\* for a missing name yields an empty (nil) map.
RemoveNodeOn(r, hm, stores, nodeName) ==
    LET s == RemoveVNodes(r, hm, nodeName)
    IN  [ring       |-> s.ring,
         hashMap    |-> s.hashMap,
         stores1    |-> MapDelete(stores, nodeName),
         dataToMove |-> IF nodeName \in DOMAIN stores
                        THEN stores[nodeName]
                        ELSE EmptyMap]

\* the keys of the snapshot that RemoveNode cannot place: GetNode names a
\* node without a store ("" on an empty ring), and the write to its store
\* panics
Homeless(b) ==
    {k \in DOMAIN b.dataToMove :
        GetNode(b.ring, b.hashMap, k).node \notin DOMAIN b.stores1}

\* a caller asks who owns key
\* a lookup that memoises its answer in the owner map under the key's hash
CallGetNodeCaching(key) ==
    /\ pc # "panicked"
    /\ LET g == GetNode(ring, hashMap, key)
       IN  /\ ret' = Ret("GetNode", key, g.node, g.err, EmptyMap)
           /\ hashMap' = IF g.err = "nil"
                         THEN MapPut(hashMap, hashKey(key), g.node)
                         ELSE hashMap
    /\ UNCHANGED <<ring, nodes, vnodes, crc, users, pc, ops, bloomVars, shardVars, rateVars>>

CallGetNode(key) ==
    /\ pc # "panicked"
    /\ LET g == GetNode(ring, hashMap, key)
       IN  ret' = Ret("GetNode", key, g.node, g.err, EmptyMap)
    /\ UNCHANGED <<ring, hashMap, nodes, vnodes, crc, users, pc, ops, bloomVars, shardVars, rateVars>>

AddNode(nodeName) ==
    /\ pc = "running"
    /\ IF Exists(nodeName)
       THEN /\ ret' = Ret("AddNode", nodeName, "", "already exists", EmptyMap)
            /\ UNCHANGED <<ring, hashMap, nodes>>
       ELSE \E a \in {AddNodeOn(ring, hashMap, nodes, nodeName)} :
                /\ ring' = a.ring
                /\ hashMap' = a.hashMap
                /\ nodes' = a.nodes
                /\ ret' = Ret("AddNode", nodeName, "", "nil", a.report)
    /\ UNCHANGED <<vnodes, crc, users, pc, ops, bloomVars, shardVars, rateVars>>

\* ch.nodes[newNode][key] = value panics ("assignment to entry in nil map")
\* when newNode has no store; the keys visited before it are already placed
RemoveNode(nodeName) ==
    /\ pc = "running"
    /\ IF ~Exists(nodeName)
       THEN /\ ret' = Ret("RemoveNode", nodeName, "", "not found", EmptyMap)
            /\ UNCHANGED <<ring, hashMap, nodes, pc>>
       ELSE \E b \in {RemoveNodeOn(ring, hashMap, nodes, nodeName)} :
            \E homeless \in {Homeless(b)} :
                /\ ring' = b.ring
                /\ hashMap' = b.hashMap
                /\ IF homeless = {}
                   THEN /\ nodes' = Redistribute(b.stores1, b.ring, b.hashMap,
                                                 b.dataToMove, DOMAIN b.dataToMove)
                        /\ ret' = Ret("RemoveNode", nodeName, "", "nil",
                                      MovesByDest(b.ring, b.hashMap, b.dataToMove))
                        /\ pc' = pc
                   ELSE /\ \E done \in SUBSET ((DOMAIN b.dataToMove) \ homeless) :
                              nodes' = Redistribute(b.stores1, b.ring, b.hashMap,
                                                    b.dataToMove, done)
                        /\ ret' = Ret("RemoveNode", nodeName, "", "panic", EmptyMap)
                        /\ pc' = "panicked"
    /\ UNCHANGED <<vnodes, crc, users, ops, bloomVars, shardVars, rateVars>>

Next ==
    \/ \E initialNodes \in 1..Len(InitialOrder), numUsers \in {0, Len(UserKeys)} :
          Bootstrap(initialNodes, numUsers)
    \/ \E key \in Keys : CallGetNode(key)
    \/ \E nodeName \in NodeNames : AddNode(nodeName)
    \/ \E nodeName \in NodeNames : RemoveNode(nodeName)

Spec == Init /\ [][Next]_vars

\* ------------------------------------------- calls from two goroutines
\* AddNode and RemoveNode statement by statement.  Neither method takes a
\* lock (the struct has none), so a step of one goroutine can follow any
\* step of the other, and GetNode can be called between any two steps.
\* Each goroutine makes one call.  A panic in a goroutine ends the program.

SetOp(t, op) == [ops EXCEPT ![t] = op]

Done(err) == [Idle EXCEPT !.pc = "done", !.err = err]

\* movesBySource[sourceNode]++, movesByDest[newNode]++
Bump(report, n) ==
    MapPut(report, n, IF n \in DOMAIN report THEN report[n] + 1 ELSE 1)

\* the existence test and ch.nodes[nodeName] = make(map[string]string)
AddBegin(t, nodeName) ==
    /\ pc = "running"
    /\ ops[t].pc = "idle"
    /\ IF Exists(nodeName)
       THEN /\ ops' = SetOp(t, Done("already exists"))
            /\ ret' = Ret("AddNode", nodeName, "", "already exists", EmptyMap)
            /\ nodes' = nodes
       ELSE /\ nodes' = MapPut(nodes, nodeName, EmptyMap)
            /\ ops' = SetOp(t, [Idle EXCEPT !.pc = "append", !.name = nodeName])
            /\ ret' = ret
    /\ UNCHANGED <<ring, hashMap, vnodes, crc, users, pc, bloomVars, shardVars, rateVars>>

\* ch.ring = append(ch.ring, hash)
AddAppend(t) ==
    /\ pc = "running"
    /\ ops[t].pc = "append"
    /\ ring' = Append(ring, hashKey(VNodeKey(ops[t].name, ops[t].i)))
    /\ ops' = SetOp(t, [ops[t] EXCEPT !.pc = "owner"])
    /\ UNCHANGED <<hashMap, nodes, vnodes, crc, users, pc, ret, bloomVars, shardVars, rateVars>>

\* ch.hashMap[hash] = nodeName; i++
AddSetOwner(t) ==
    /\ pc = "running"
    /\ ops[t].pc = "owner"
    /\ hashMap' = MapPut(hashMap, hashKey(VNodeKey(ops[t].name, ops[t].i)),
                         ops[t].name)
    /\ ops' = SetOp(t, [ops[t] EXCEPT
                          !.i = @ + 1,
                          !.pc = IF ops[t].i + 1 < vnodes THEN "append" ELSE "sort"])
    /\ UNCHANGED <<ring, nodes, vnodes, crc, users, pc, ret, bloomVars, shardVars, rateVars>>

\* AddNode that goes on to the scan without sorting
AddSortSkipped(t) ==
    /\ pc = "running"
    /\ ops[t].pc = "sort"
    /\ ops' = SetOp(t, [ops[t] EXCEPT !.pc = "scan"])
    /\ UNCHANGED <<ring, hashMap, nodes, vnodes, crc, users, pc, ret, bloomVars, shardVars, rateVars>>

\* sort.Slice(ch.ring, ...)
AddSort(t) ==
    /\ pc = "running"
    /\ ops[t].pc = "sort"
    /\ ring' = SortRing(ring)
    /\ ops' = SetOp(t, [ops[t] EXCEPT !.pc = "scan"])
    /\ UNCHANGED <<hashMap, nodes, vnodes, crc, users, pc, ret, bloomVars, shardVars, rateVars>>

\* the scan that fills keysToMove
AddScan(t) ==
    /\ pc = "running"
    /\ ops[t].pc = "scan"
    /\ LET keysToMove == ScanKeysToMove(nodes, ring, hashMap, ops[t].name)
       IN  ops' = SetOp(t, [ops[t] EXCEPT
                 !.pc = "move",
                 !.moves = UNION {{<<s, k>> : k \in keysToMove[s]} :
                                    s \in DOMAIN keysToMove}])
    /\ UNCHANGED <<ring, hashMap, nodes, vnodes, crc, users, pc, ret, bloomVars, shardVars, rateVars>>

\* a move loop that stops after its first round
AddMoveKeyOnce(t) ==
    /\ pc = "running"
    /\ ops[t].pc = "move"
    /\ \E m \in ops[t].moves :
         /\ nodes' = [nodes EXCEPT
                        ![ops[t].name] = MapPut(@, m[2], nodes[m[1]][m[2]]),
                        ![m[1]] = MapDelete(@, m[2])]
         /\ ops' = SetOp(t, [ops[t] EXCEPT !.moves = {},
                                           !.report = Bump(@, m[1])])
    /\ UNCHANGED <<ring, hashMap, vnodes, crc, users, pc, ret, bloomVars, shardVars, rateVars>>

\* one round of the move loop: value := ch.nodes[sourceNode][key] (the zero
\* value "" when the store or the key is gone), ch.nodes[nodeName][key] =
\* value (a panic when the new node's store is gone),
\* delete(ch.nodes[sourceNode], key) (nothing when the store is gone)
AddMoveKey(t) ==
    /\ pc = "running"
    /\ ops[t].pc = "move"
    /\ \E m \in ops[t].moves :
         LET sourceNode == m[1]
             key        == m[2]
             nodeName   == ops[t].name
             value      == IF sourceNode \in DOMAIN nodes /\ key \in DOMAIN nodes[sourceNode]
                           THEN nodes[sourceNode][key]
                           ELSE ""
             put        == [nodes EXCEPT ![nodeName] = MapPut(@, key, value)]
         IN  IF nodeName \notin DOMAIN nodes
             THEN /\ pc' = "panicked"
                  /\ ret' = Ret("AddNode", nodeName, "", "panic", EmptyMap)
                  /\ UNCHANGED <<nodes, ops>>
             ELSE /\ nodes' = IF sourceNode \in DOMAIN put
                              THEN [put EXCEPT ![sourceNode] = MapDelete(@, key)]
                              ELSE put
                  /\ ops' = SetOp(t, [ops[t] EXCEPT
                                        !.moves = @ \ {m},
                                        !.report = Bump(@, sourceNode)])
                  /\ UNCHANGED <<pc, ret>>
    /\ UNCHANGED <<ring, hashMap, vnodes, crc, users, bloomVars, shardVars, rateVars>>

\* AddNode that returns with recorded moves still to apply
AddReturnEarly(t) ==
    /\ pc = "running"
    /\ ops[t].pc = "move"
    /\ ret' = Ret("AddNode", ops[t].name, "", "nil", ops[t].report)
    /\ ops' = SetOp(t, Done("nil"))
    /\ UNCHANGED <<ring, hashMap, nodes, vnodes, crc, users, pc, bloomVars, shardVars, rateVars>>

\* the move loop is over: the counts are printed and AddNode returns
AddReturn(t) ==
    /\ pc = "running"
    /\ ops[t].pc = "move"
    /\ ops[t].moves = {}
    /\ ret' = Ret("AddNode", ops[t].name, "", "nil", ops[t].report)
    /\ ops' = SetOp(t, Done("nil"))
    /\ UNCHANGED <<ring, hashMap, nodes, vnodes, crc, users, pc, bloomVars, shardVars, rateVars>>

\* the existence test and dataToMove := ch.nodes[nodeName], which refers to
\* the registered map and copies nothing
RemoveBegin(t, nodeName) ==
    /\ pc = "running"
    /\ ops[t].pc = "idle"
    /\ IF ~Exists(nodeName)
       THEN /\ ops' = SetOp(t, Done("not found"))
            /\ ret' = Ret("RemoveNode", nodeName, "", "not found", EmptyMap)
       ELSE /\ ops' = SetOp(t, [Idle EXCEPT !.pc = "unmap", !.name = nodeName,
                                            !.live = TRUE])
            /\ ret' = ret
    /\ UNCHANGED <<ring, hashMap, nodes, vnodes, crc, users, pc, bloomVars, shardVars, rateVars>>

\* RemoveNode that leaves the owner entries of the node in ch.hashMap
RemoveUnmapKept(t) ==
    /\ pc = "running"
    /\ ops[t].pc = "unmap"
    /\ ops' = SetOp(t, [ops[t] EXCEPT
                          !.i = @ + 1,
                          !.pc = IF ops[t].i + 1 < vnodes THEN "unmap" ELSE "ring"])
    /\ UNCHANGED <<ring, hashMap, nodes, vnodes, crc, users, pc, ret, bloomVars, shardVars, rateVars>>

\* delete(ch.hashMap, hash); i++
RemoveUnmap(t) ==
    /\ pc = "running"
    /\ ops[t].pc = "unmap"
    /\ hashMap' = MapDelete(hashMap, hashKey(VNodeKey(ops[t].name, ops[t].i)))
    /\ ops' = SetOp(t, [ops[t] EXCEPT
                          !.i = @ + 1,
                          !.pc = IF ops[t].i + 1 < vnodes THEN "unmap" ELSE "ring"])
    /\ UNCHANGED <<ring, nodes, vnodes, crc, users, pc, ret, bloomVars, shardVars, rateVars>>

\* newRing is built from ch.ring without hashesToRemove; ch.ring = newRing
RemoveRing(t) ==
    /\ pc = "running"
    /\ ops[t].pc = "ring"
    /\ ring' = RemoveVNodes(ring, hashMap, ops[t].name).ring
    /\ ops' = SetOp(t, [ops[t] EXCEPT !.pc = "delete"])
    /\ UNCHANGED <<hashMap, nodes, vnodes, crc, users, pc, ret, bloomVars, shardVars, rateVars>>

\* delete(ch.nodes, nodeName).  The map that was registered under the name
\* can no longer be reached through ch.nodes, so it keeps the contents it has
\* now: every dataToMove that refers to it is settled.
RemoveDelete(t) ==
    /\ pc = "running"
    /\ ops[t].pc = "delete"
    /\ LET nodeName    == ops[t].name
           settled(u)  == IF ops[u].live /\ ops[u].name = nodeName
                          THEN [ops[u] EXCEPT !.data = nodes[nodeName],
                                              !.live = FALSE]
                          ELSE ops[u]
       IN  /\ nodes' = MapDelete(nodes, nodeName)
           /\ ops' = [u \in Threads |->
                        IF u = t
                        THEN [settled(t) EXCEPT !.pc = "loop",
                                                !.todo = DOMAIN settled(t).data]
                        ELSE settled(u)]
    /\ UNCHANGED <<ring, hashMap, vnodes, crc, users, pc, ret, bloomVars, shardVars, rateVars>>

\* one round of the redistribution loop: newNode, _ := ch.GetNode(key);
\* ch.nodes[newNode][key] = value (a panic when newNode has no store)
RemoveMoveKey(t) ==
    /\ pc = "running"
    /\ ops[t].pc = "loop"
    /\ \E key \in ops[t].todo :
         LET newNode == GetNode(ring, hashMap, key).node
         IN  IF newNode \notin DOMAIN nodes
             THEN /\ pc' = "panicked"
                  /\ ret' = Ret("RemoveNode", ops[t].name, "", "panic", EmptyMap)
                  /\ UNCHANGED <<nodes, ops>>
             ELSE /\ nodes' = [nodes EXCEPT
                                 ![newNode] = MapPut(@, key, ops[t].data[key])]
                  /\ ops' = SetOp(t, [ops[t] EXCEPT
                                        !.todo = @ \ {key},
                                        !.report = Bump(@, newNode)])
                  /\ UNCHANGED <<pc, ret>>
    /\ UNCHANGED <<ring, hashMap, vnodes, crc, users, bloomVars, shardVars, rateVars>>

\* the loop is over: the counts are printed and RemoveNode returns nil
RemoveReturn(t) ==
    /\ pc = "running"
    /\ ops[t].pc = "loop"
    /\ ops[t].todo = {}
    /\ ret' = Ret("RemoveNode", ops[t].name, "", "nil", ops[t].report)
    /\ ops' = SetOp(t, Done("nil"))
    /\ UNCHANGED <<ring, hashMap, nodes, vnodes, crc, users, pc, bloomVars, shardVars, rateVars>>

NextConc ==
    \/ \E initialNodes \in 1..Len(InitialOrder), numUsers \in {0, Len(UserKeys)} :
          Bootstrap(initialNodes, numUsers)
    \/ \E key \in Keys : CallGetNode(key)
    \/ \E t \in Threads, nodeName \in NodeNames : AddBegin(t, nodeName)
    \/ \E t \in Threads : AddAppend(t)
    \/ \E t \in Threads : AddSetOwner(t)
    \/ \E t \in Threads : AddSort(t)
    \/ \E t \in Threads : AddScan(t)
    \/ \E t \in Threads : AddMoveKey(t)
    \/ \E t \in Threads : AddReturn(t)
    \/ \E t \in Threads, nodeName \in NodeNames : RemoveBegin(t, nodeName)
    \/ \E t \in Threads : RemoveUnmap(t)
    \/ \E t \in Threads : RemoveRing(t)
    \/ \E t \in Threads : RemoveDelete(t)
    \/ \E t \in Threads : RemoveMoveKey(t)
    \/ \E t \in Threads : RemoveReturn(t)

SpecConc == Init /\ [][NextConc]_vars

\* ------------------------------------ calls from one goroutine, in steps
\* main calls AddNode and RemoveNode from one goroutine: a call starts only
\* when the one before it has returned.  The statements are those above; two
\* calls are followed, "t1" first.
Turn(t) == t = "t1" \/ ops["t1"].pc = "done"

NextSeq ==
    \/ \E initialNodes \in 1..Len(InitialOrder), numUsers \in {0, Len(UserKeys)} :
          Bootstrap(initialNodes, numUsers)
    \/ \E t \in Threads, nodeName \in NodeNames : Turn(t) /\ AddBegin(t, nodeName)
    \/ \E t \in Threads : AddAppend(t)
    \/ \E t \in Threads : AddSetOwner(t)
    \/ \E t \in Threads : AddSort(t)
    \/ \E t \in Threads : AddScan(t)
    \/ \E t \in Threads : AddMoveKey(t)
    \/ \E t \in Threads : AddReturn(t)
    \/ \E t \in Threads, nodeName \in NodeNames : Turn(t) /\ RemoveBegin(t, nodeName)
    \/ \E t \in Threads : RemoveUnmap(t)
    \/ \E t \in Threads : RemoveRing(t)
    \/ \E t \in Threads : RemoveDelete(t)
    \/ \E t \in Threads : RemoveMoveKey(t)
    \/ \E t \in Threads : RemoveReturn(t)

SpecSeq == Init /\ [][NextSeq]_vars

\* ------------------------------------------------------------ verifyKeys
\* the maps the first loop of verifyKeys can build: actualLocations[key] =
\* nodeName for every key held; a key held by several stores keeps the node
\* the map iteration visits last, which can be any of them
ActualLocations(stores) ==
    {f \in [{k \in Keys : Loc(stores, k) # {}} -> DOMAIN stores] :
        \A k \in DOMAIN f : k \in DOMAIN stores[f[k]]}

\* verifyKeys with the lost keys printed but not counted
verifyKeysLostUncounted(r, hm, data, actualLocations) ==
    LET lost      == {k \in DOMAIN data : k \notin DOMAIN actualLocations}
        correct   == {k \in (DOMAIN data) \ lost :
                        GetNode(r, hm, k).node = actualLocations[k]}
        misplaced == ((DOMAIN data) \ lost) \ correct
    IN  [correct   |-> Cardinality(correct),
         incorrect |-> Cardinality(misplaced),
         lost      |-> lost,
         misplaced |-> misplaced]

\* the second loop of verifyKeys over the dataset: what it prints.  correct
\* and incorrect are the two counts of the closing line; lost are the keys of
\* the "was LOST" lines, misplaced the keys of the "should be on" lines.
verifyKeys(r, hm, data, actualLocations) ==
    LET lost      == {k \in DOMAIN data : k \notin DOMAIN actualLocations}
        correct   == {k \in (DOMAIN data) \ lost :
                        GetNode(r, hm, k).node = actualLocations[k]}
        misplaced == ((DOMAIN data) \ lost) \ correct
    IN  [correct   |-> Cardinality(correct),
         incorrect |-> Cardinality(lost) + Cardinality(misplaced),
         lost      |-> lost,
         misplaced |-> misplaced]

\* the stores a cluster can be handed to verifyKeys with: any Active nodes,
\* each holding any of the records
AnyStores ==
    UNION {[A -> {[k \in K |-> "data_for_" \o k] : K \in SUBSET Keys}] :
             A \in SUBSET NodeNames}

\* the rings verifyKeys can be handed: sorted, of any positions
AnyRings ==
    {r \in UNION {[1..n -> Positions] : n \in 0..(MaxPos + 1)} :
        \A i \in 1..(Len(r) - 1) : r[i] < r[i + 1]}

\* verifyKeys is applied to every cluster and every dataset of main(); it
\* hashes the user keys only
InitVerify ==
    /\ ring \in AnyRings
    /\ hashMap \in [Range(ring) -> NodeNames]
    /\ nodes \in AnyStores
    /\ vnodes = 1
    /\ crc \in [HashedStrings(vnodes) -> Positions]
    /\ Canonical(crc, vnodes)
    /\ \A n \in NodeNames : crc[VNodeKey(n, 0)] = 0
    /\ \E numUsers \in 0..Len(UserKeys) : users = MakeUsers(numUsers)
    /\ pc = "running"
    /\ ret = Ret("main", "", "", "nil", EmptyMap)
    /\ ops = [t \in Threads |-> Idle]
    /\ NoBloomFilter
    /\ NoShardManager
    /\ NoRateLimiter

VerifyKeys ==
    /\ pc = "running"
    /\ \E actualLocations \in ActualLocations(nodes) :
          ret' = Ret("verifyKeys", "", "", "nil",
                     verifyKeys(ring, hashMap, users, actualLocations))
    /\ UNCHANGED <<ring, hashMap, nodes, vnodes, crc, users, pc, ops, bloomVars, shardVars, rateVars>>

NextVerify == VerifyKeys

SpecVerify == InitVerify /\ [][NextVerify]_vars

\* ---------------------------------------------------------- Bloom filter
\* the items handed to Add and Test ([]byte)
Items == {"x", "y"}

\* NewBloomFilter(m, k): (m+63)/64 zeroed words; a word is the set of its bits
\* that are 1.  hash1 and hash2 stand for murmur3 and FNV-1a, as arbitrary
\* functions of the item.
NewBloomFilter(m, k, hash1, hash2) ==
    [m      |-> m,
     k      |-> k,
     bitset |-> [w \in 0..(((m + WordBits - 1) \div WordBits) - 1) |-> {}],
     hash1  |-> hash1,
     hash2  |-> hash2]

\* h1, h2 := bf.getHashes(data)
getHashes(b, data) == <<b.hash1[data], b.hash2[data]>>

\* index := (h1 + i*h2) % bf.m
BitIndex(b, data, i) ==
    LET h == getHashes(b, data)
    IN  (h[1] + i * h[2]) % b.m

\* Add with ^= in place of |=: a bit that is already 1 is cleared
AddXor(b, data) ==
    LET flips(w, x) == Cardinality({i \in 0..(b.k - 1) :
                          /\ BitIndex(b, data, i) \div WordBits = w
                          /\ BitIndex(b, data, i) % WordBits = x})
    IN  [b EXCEPT !.bitset =
            [w \in DOMAIN b.bitset |->
               {x \in 0..(WordBits - 1) :
                  (x \in b.bitset[w]) # (flips(w, x) % 2 = 1)}]]

\* Add: bf.bitset[index/64] |= (1 << (index % 64)) for i = 0 .. k-1
Add(b, data) ==
    [b EXCEPT !.bitset =
        [w \in DOMAIN b.bitset |->
           b.bitset[w] \cup
             {BitIndex(b, data, i) % WordBits :
                i \in {j \in 0..(b.k - 1) : BitIndex(b, data, j) \div WordBits = w}}]]

\* Test: false at the first i whose bit is 0, true when there is none
Test(b, data) ==
    \A i \in 0..(b.k - 1) :
        (BitIndex(b, data, i) % WordBits) \in b.bitset[BitIndex(b, data, i) \div WordBits]

\* a filter of any size m >= 1 and any k, with any pair of hash functions
InitBloom ==
    /\ NoRing
    /\ \E m \in 1..MaxM, k \in 0..MaxK :
       \E hash1 \in [Items -> 0..MaxHash], hash2 \in [Items -> 0..MaxHash] :
          bf = NewBloomFilter(m, k, hash1, hash2)
    /\ bfAdded = {}
    /\ bfRet = [op |-> "NewBloomFilter", item |-> "", found |-> FALSE]
    /\ NoShardManager
    /\ NoRateLimiter

CallAdd(data) ==
    /\ bf' = Add(bf, data)
    /\ bfAdded' = bfAdded \cup {data}
    /\ bfRet' = [op |-> "Add", item |-> data, found |-> FALSE]
    /\ UNCHANGED <<ringVars, shardVars, rateVars>>

CallTest(data) ==
    /\ bfRet' = [op |-> "Test", item |-> data, found |-> Test(bf, data)]
    /\ UNCHANGED <<ringVars, bf, bfAdded, shardVars, rateVars>>

NextBloom ==
    \/ \E data \in Items : CallAdd(data)
    \/ \E data \in Items : CallTest(data)

SpecBloom == InitBloom /\ [][NextBloom]_vars

\* ---------------------------------------------------- database sharding
\* the UUIDs uuid.New() and the URLs can carry, and the user names
IdOrder == <<"u1", "u2">>
Ids == Range(IdOrder)
Names == {"ann", "bob"}

ShardIndexes == 0..(numShards - 1)

\* getShardIndex with the modulus off by one
getShardIndexOffByOne(id) == fnv[id] % (numShards + 1)

\* getShardIndex: int(hash % uint64(numShards))
getShardIndex(id) == fnv[id] % numShards

\* GetShardForID: sm.Shards[index], named by its index
GetShardForID(id) == getShardIndex(id)

\* the User document
User(id, name, data) == [id |-> id, name |-> name, data |-> data]

\* the response of the request being served: the handler, the ID and the name
\* of the request, the status code (0 while none is written) and the users of
\* the JSON body.  Requests are served one after the other; the goroutines of
\* one GetUserByName interleave.
Response(op, id, name, status, body) ==
    [op |-> op, id |-> id, name |-> name, status |-> status, body |-> body]

\* no GetUserByName request is in flight
NoGather ==
    [name |-> "", wg |-> 0, g |-> <<>>, shardUsers |-> <<>>, users |-> <<>>,
     failed |-> {}]

\* NewShardManager: numShards empty collections; FNV-1a is an arbitrary
\* function of the ID
InitShard ==
    /\ NoRing
    /\ NoBloomFilter
    /\ NoRateLimiter
    /\ shards = [i \in ShardIndexes |-> EmptyMap]
    /\ fnv \in [Ids -> 0..MaxIdHash]
    /\ resp = Response("NewShardManager", "", "", 0, <<>>)
    /\ gather = NoGather

\* POST /users.  uuid.New() can return any ID; InsertOne fails on an _id the
\* collection already holds.
CreateUser(valid, id, name) ==
    /\ gather = NoGather
    /\ IF ~valid
       THEN /\ resp' = Response("CreateUser", "", "", 400, <<>>)
            /\ shards' = shards
       ELSE LET shard == GetShardForID(id)
                user  == User(id, name, "d")
            IN  IF id \in DOMAIN shards[shard]
                THEN /\ resp' = Response("CreateUser", id, name, 500, <<>>)
                     /\ shards' = shards
                ELSE /\ shards' = [shards EXCEPT ![shard] = MapPut(@, id, user)]
                     /\ resp' = Response("CreateUser", id, name, 201, <<user>>)
    /\ UNCHANGED <<ringVars, bloomVars, rateVars, fnv, gather>>

\* GET /users/{id}
GetUserByID(valid, id) ==
    /\ gather = NoGather
    /\ IF ~valid
       THEN resp' = Response("GetUserByID", "", "", 400, <<>>)
       ELSE LET shard == GetShardForID(id)
            IN  IF id \notin DOMAIN shards[shard]
                THEN resp' = Response("GetUserByID", id, "", 404, <<>>)
                ELSE resp' = Response("GetUserByID", id, "", 200,
                                      <<shards[shard][id]>>)
    /\ UNCHANGED <<ringVars, bloomVars, rateVars, shards, fnv, gather>>

\* PUT /users/{id}: $set name and data
UpdateUser(valid, id, name) ==
    /\ gather = NoGather
    /\ IF ~valid
       THEN /\ resp' = Response("UpdateUser", "", "", 400, <<>>)
            /\ shards' = shards
       ELSE LET shard == GetShardForID(id)
            IN  IF id \notin DOMAIN shards[shard]
                THEN /\ resp' = Response("UpdateUser", id, name, 404, <<>>)
                     /\ shards' = shards
                ELSE /\ shards' = [shards EXCEPT
                                     ![shard] = MapPut(@, id, User(id, name, "d"))]
                     /\ resp' = Response("UpdateUser", id, name, 204, <<>>)
    /\ UNCHANGED <<ringVars, bloomVars, rateVars, fnv, gather>>

\* DELETE /users/{id}
DeleteUser(valid, id) ==
    /\ gather = NoGather
    /\ IF ~valid
       THEN /\ resp' = Response("DeleteUser", "", "", 400, <<>>)
            /\ shards' = shards
       ELSE LET shard == GetShardForID(id)
            IN  IF id \notin DOMAIN shards[shard]
                THEN /\ resp' = Response("DeleteUser", id, "", 404, <<>>)
                     /\ shards' = shards
                ELSE /\ shards' = [shards EXCEPT ![shard] = MapDelete(@, id)]
                     /\ resp' = Response("DeleteUser", id, "", 204, <<>>)
    /\ UNCHANGED <<ringVars, bloomVars, rateVars, fnv, gather>>

\* GetAllShards
GetAllShards == ShardIndexes

\* s.Find(bson.M{"name": name}) and cursor.All: the users of the shard with
\* that name, in the collection's order
FindByName(shard, name) ==
    LET ids == SelectSeq(IdOrder, LAMBDA id : /\ id \in DOMAIN shard
                                              /\ shard[id].name = name)
    IN  [n \in 1..Len(ids) |-> shard[ids[n]]]

\* users = append(users, shardUsers...)
AppendUsers(all, shardUsers) == all \o shardUsers

\* wg.Wait() returns when the counter is zero
Wait(wg) == wg = 0

\* GET /users/name/{name}, up to the launch of the goroutines: wg.Add and one
\* goroutine per shard
GetUserByNameBegin(name) ==
    /\ gather = NoGather
    /\ gather' = [name |-> name, wg |-> Cardinality(GetAllShards),
                  g |-> [i \in GetAllShards |-> "find"],
                  shardUsers |-> [i \in GetAllShards |-> <<>>],
                  users |-> <<>>, failed |-> {}]
    /\ resp' = Response("GetUserByName", "", name, 0, <<>>)
    /\ UNCHANGED <<ringVars, bloomVars, rateVars, shards, fnv>>

\* goroutine of shard i: s.Find and cursor.All.  On an error of either the
\* goroutine logs, returns, and its deferred wg.Done runs.
GoFind(i, err) ==
    /\ gather # NoGather
    /\ gather.g[i] = "find"
    /\ IF err
       THEN gather' = [gather EXCEPT !.g[i] = "done", !.wg = @ - 1,
                                     !.failed = @ \cup {i}]
       ELSE gather' = [gather EXCEPT
                         !.g[i] = "lock",
                         !.shardUsers[i] = FindByName(shards[i], gather.name)]
    /\ UNCHANGED <<ringVars, bloomVars, rateVars, shards, fnv, resp>>

\* goroutine of shard i: mu.Lock, append, mu.Unlock, then the deferred wg.Done
GoAppend(i) ==
    /\ gather # NoGather
    /\ gather.g[i] = "lock"
    /\ gather' = [gather EXCEPT
                    !.g[i] = "done", !.wg = @ - 1,
                    !.users = AppendUsers(@, gather.shardUsers[i])]
    /\ UNCHANGED <<ringVars, bloomVars, rateVars, shards, fnv, resp>>

\* GetUserByName after wg.Wait(): 404 on an empty list, else the list
GetUserByNameRespond ==
    /\ gather # NoGather
    /\ Wait(gather.wg)
    /\ resp' = IF Len(gather.users) = 0
               THEN Response("GetUserByName", "", gather.name, 404, <<>>)
               ELSE Response("GetUserByName", "", gather.name, 200, gather.users)
    /\ gather' = NoGather
    /\ UNCHANGED <<ringVars, bloomVars, rateVars, shards, fnv>>

NextShard ==
    \/ \E valid \in BOOLEAN, id \in Ids, name \in Names : CreateUser(valid, id, name)
    \/ \E valid \in BOOLEAN, id \in Ids : GetUserByID(valid, id)
    \/ \E valid \in BOOLEAN, id \in Ids, name \in Names : UpdateUser(valid, id, name)
    \/ \E valid \in BOOLEAN, id \in Ids : DeleteUser(valid, id)
    \/ \E name \in Names : GetUserByNameBegin(name)
    \/ \E i \in GetAllShards, err \in BOOLEAN : GoFind(i, err)
    \/ \E i \in GetAllShards : GoAppend(i)
    \/ GetUserByNameRespond

SpecShard == InitShard /\ [][NextShard]_vars

\* ------------------------------------------------------- rate limiters
\* the packet IDs of the simulations
Packets == {0, 1}

\* what out records: the call or event, the packet, and AddPacket's result
Out(op, packetID, ok) == [op |-> op, packet |-> packetID, ok |-> ok]

\* a send on a buffered channel that also succeeds on a full buffer
TrySendOverfull(queue, capacity, packetID) ==
    IF Len(queue) <= capacity
    THEN [ok |-> TRUE, queue |-> Append(queue, packetID)]
    ELSE [ok |-> FALSE, queue |-> queue]

\* select { case queue <- packetID: ... default: ... } on a channel with a
\* buffer of capacity elements: the send is taken when the buffer has room,
\* the default otherwise
TrySend(queue, capacity, packetID) ==
    IF Len(queue) < capacity
    THEN [ok |-> TRUE, queue |-> Append(queue, packetID)]
    ELSE [ok |-> FALSE, queue |-> queue]

\* NewLeakyBucket
NewLeakyBucket(capacity, leakRate) ==
    [capacity |-> capacity, leakRate |-> leakRate, queue |-> <<>>]

\* the bucket of a simulation that has not started or has returned
NoBucket == <<>>

\* NewTokenBucket: a full bucket; elapsed is time.Now() - lastRefill in clock
\* ticks; pc and packet are the processor goroutine's position and packetID
NewTokenBucket(capacity, tokenRate, queueCapacity) ==
    [capacity |-> capacity, tokens |-> capacity, tokenRate |-> tokenRate,
     elapsed |-> 0, packetQueue |-> <<>>, queueCapacity |-> queueCapacity,
     pc |-> "tick", packet |-> 0]

min(a, b) == IF a < b THEN a ELSE b

\* refill without the cap at capacity
refillUncapped(b) ==
    LET tokensToAdd == (b.elapsed * b.tokenRate) \div ClockTicks
    IN  IF tokensToAdd > 0
        THEN [b EXCEPT !.tokens = b.tokens + tokensToAdd, !.elapsed = 0]
        ELSE b

\* refill: tokensToAdd := int(elapsed.Seconds() * float64(b.tokenRate))
refill(b) ==
    LET tokensToAdd == (b.elapsed * b.tokenRate) \div ClockTicks
    IN  IF tokensToAdd > 0
        THEN [b EXCEPT !.tokens = min(b.tokens + tokensToAdd, b.capacity),
                       !.elapsed = 0]
        ELSE b

\* main starts with SimulateLeakyBucket: NewLeakyBucket(capacity, leakRate)
InitRate ==
    /\ NoRing
    /\ NoBloomFilter
    /\ NoShardManager
    /\ \E capacity \in 1..MaxCapacity, leakRate \in 1..MaxRate :
          lb = NewLeakyBucket(capacity, leakRate)
    /\ tb = NoBucket
    /\ out = Out("NewLeakyBucket", 0, TRUE)

\* LeakyBucket.AddPacket
LeakyAddPacket(packetID) ==
    /\ lb # NoBucket
    /\ \E s \in {TrySend(lb.queue, lb.capacity, packetID)} :
          /\ lb' = [lb EXCEPT !.queue = s.queue]
          /\ out' = Out("LeakyBucket.AddPacket", packetID, s.ok)
    /\ UNCHANGED <<ringVars, bloomVars, shardVars, tb>>

\* one tick of the goroutine of startLeaking: a packet is taken from the
\* queue if there is one
Leak ==
    /\ lb # NoBucket
    /\ IF lb.queue # <<>>
       THEN /\ lb' = [lb EXCEPT !.queue = Tail(@)]
            /\ out' = Out("processed", Head(lb.queue), TRUE)
       ELSE UNCHANGED <<lb, out>>
    /\ UNCHANGED <<ringVars, bloomVars, shardVars, tb>>

\* SimulateLeakyBucket returns, its ticker stopped and its bucket out of
\* reach, and SimulateTokenBucket starts: NewTokenBucket and go tb.processor()
SimulateTokenBucket(capacity, tokenRate, queueCapacity) ==
    /\ lb # NoBucket
    /\ lb' = NoBucket
    /\ tb' = NewTokenBucket(capacity, tokenRate, queueCapacity)
    /\ out' = Out("NewTokenBucket", 0, TRUE)
    /\ UNCHANGED <<ringVars, bloomVars, shardVars>>

\* TokenBucket.AddPacket
TokenAddPacket(packetID) ==
    /\ tb # NoBucket
    /\ \E s \in {TrySend(tb.packetQueue, tb.queueCapacity, packetID)} :
          /\ tb' = [tb EXCEPT !.packetQueue = s.queue]
          /\ out' = Out("TokenBucket.AddPacket", packetID, s.ok)
    /\ UNCHANGED <<ringVars, bloomVars, shardVars, lb>>

\* processor: a tick arrives d clock ticks after the last look at the clock,
\* then Lock, refill, Unlock
processorRefill(d) ==
    /\ tb # NoBucket
    /\ tb.pc = "tick"
    /\ tb.elapsed + d <= MaxElapsed
    /\ tb' = [refill([tb EXCEPT !.elapsed = @ + d]) EXCEPT !.pc = "select"]
    /\ UNCHANGED <<ringVars, bloomVars, shardVars, lb, out>>

\* processor: select { case packetID := <-b.packetQueue: ... default: }
processorSelect ==
    /\ tb # NoBucket
    /\ tb.pc = "select"
    /\ IF tb.packetQueue # <<>>
       THEN tb' = [tb EXCEPT !.packet = Head(tb.packetQueue),
                             !.packetQueue = Tail(@), !.pc = "got"]
       ELSE tb' = [tb EXCEPT !.pc = "tick"]
    /\ UNCHANGED <<ringVars, bloomVars, shardVars, lb, out>>

\* processor with the packet in hand: Lock; if b.tokens > 0 { b.tokens--;
\* "sent" is printed }; Unlock
processorSend ==
    /\ tb # NoBucket
    /\ tb.pc = "got"
    /\ IF tb.tokens > 0
       THEN /\ tb' = [tb EXCEPT !.tokens = @ - 1, !.pc = "tick"]
            /\ out' = Out("sent", tb.packet, TRUE)
       ELSE /\ tb' = [tb EXCEPT !.pc = "tick"]
            /\ out' = out
    /\ UNCHANGED <<ringVars, bloomVars, shardVars, lb>>

NextRate ==
    \/ \E packetID \in Packets : LeakyAddPacket(packetID)
    \/ Leak
    \/ \E capacity \in 1..MaxCapacity, tokenRate \in 1..MaxRate,
          queueCapacity \in 1..MaxCapacity :
          SimulateTokenBucket(capacity, tokenRate, queueCapacity)
    \/ \E packetID \in Packets : TokenAddPacket(packetID)
    \/ \E d \in 1..MaxElapsed : processorRefill(d)
    \/ processorSelect
    \/ processorSend

SpecRate == InitRate /\ [][NextRate]_vars


\* ============================================================== claims
\* the (node, key, value) triples held by the stores
Held(stores) ==
    {<<n, k, stores[n][k]>> : <<n, k>> \in
        {x \in (DOMAIN stores) \X Keys : x[2] \in DOMAIN stores[x[1]]}}

\* the (key, value) records in the union of all stores
AllRecords(stores) == {<<t[2], t[3]>> : t \in Held(stores)}

\* the number of records summed over all stores
TotalRecords(stores) == Cardinality(Held(stores))

\* the total of a printed move report
RECURSIVE ReportTotal(_)
ReportTotal(report) ==
    IF DOMAIN report = {}
    THEN 0
    ELSE LET n == CHOOSE x \in DOMAIN report : TRUE
         IN  report[n] + ReportTotal([x \in (DOMAIN report) \ {n} |-> report[x]])

\* the last call was a membership operation that returned normally
MembershipReturned == ret.op \in {"AddNode", "RemoveNode"} /\ ret.err = "nil"

\* C1: after any sequence of AddNode and RemoveNode calls that has returned,
\* every record of the dataset is stored on exactly the node GetNode names
\* for its key: none is on another node, none is missing from all stores.
C1_PlacedWhereGetNodeSays ==
    pc = "running" =>
        \A k \in DOMAIN users :
            Loc(nodes, k) = {GetNode(ring, hashMap, k).node}

\* C2: an AddNode or RemoveNode call leaves the number of records summed
\* over all stores, and the set of (key, value) records in the union of the
\* stores, as they were before the call.
C2_Conservation ==
    [][ret'.op \in {"AddNode", "RemoveNode"} =>
          /\ TotalRecords(nodes') = TotalRecords(nodes)
          /\ AllRecords(nodes') = AllRecords(nodes)]_vars

\* C3: between membership operations every record of the dataset is in the
\* store of exactly one node, with its value, and no key is in two stores.
C3_ExactlyOneStore ==
    pc = "running" =>
        /\ \A k \in DOMAIN users :
              /\ Cardinality(Loc(nodes, k)) = 1
              /\ \A n \in Loc(nodes, k) : nodes[n][k] = users[k]
        /\ \A k \in Keys : Cardinality(Loc(nodes, k)) <= 1

\* C3 witness: a membership operation has just moved a record, and another
\* node still holds a record
C3_Witness ==
    /\ pc = "running"
    /\ MembershipReturned
    /\ ReportTotal(ret.report) > 0
    /\ Cardinality({n \in DOMAIN nodes : DOMAIN nodes[n] # {}}) >= 2

Min(S) == CHOOSE x \in S : \A y \in S : x <= y

\* C4: after RemoveNode(X) has returned successfully, every record that was
\* on a node other than X is still on that node with its value, and every
\* record that is new in a store was on X before the call.
C4_RemoveLeavesOthers ==
    [][(ret'.op = "RemoveNode" /\ ret'.err = "nil") =>
          LET X == ret'.arg
          IN  /\ \A n \in (DOMAIN nodes) \ {X} :
                    /\ n \in DOMAIN nodes'
                    /\ \A k \in DOMAIN nodes[n] :
                          k \in DOMAIN nodes'[n] /\ nodes'[n][k] = nodes[n][k]
              /\ \A n \in DOMAIN nodes' :
                    /\ n \in (DOMAIN nodes) \ {X}
                    /\ \A k \in (DOMAIN nodes'[n]) \ (DOMAIN nodes[n]) :
                          k \in DOMAIN nodes[X]]_vars

\* C4 witness: RemoveNode returned, it moved a record to a node that already
\* held one
C4_Witness ==
    /\ pc = "running"
    /\ ret.op = "RemoveNode"
    /\ ret.err = "nil"
    /\ \E n \in DOMAIN ret.report :
          Cardinality(DOMAIN nodes[n]) > ret.report[n]

\* C5: after AddNode(Y) for an Absent Y, a record has changed store exactly
\* when GetNode now names Y for its key, every record that changed store is
\* in Y's store, and no record moved between two nodes that were Active.
C5_AddMovesOnlyClaimed ==
    [][(ret'.op = "AddNode" /\ ret'.err = "nil") =>
          LET Y == ret'.arg
          IN  \A k \in DOMAIN users :
                 /\ (Loc(nodes', k) # Loc(nodes, k))
                       <=> (GetNode(ring', hashMap', k).node = Y)
                 /\ (Loc(nodes', k) # Loc(nodes, k)) => Loc(nodes', k) = {Y}
                 /\ \A n \in (DOMAIN nodes) \ {Y} :
                       k \in DOMAIN nodes'[n] => k \in DOMAIN nodes[n]]_vars

\* C5 witness: AddNode returned with two other nodes Active, one record went
\* to the new node and another record stayed where it was
C5_Witness ==
    /\ pc = "running"
    /\ ret.op = "AddNode"
    /\ ret.err = "nil"
    /\ Cardinality(DOMAIN nodes) >= 3
    /\ DOMAIN nodes[ret.arg] # {}
    /\ \E n \in (DOMAIN nodes) \ {ret.arg} : DOMAIN nodes[n] # {}

\* C6: for a non-empty ring and a key whose hash is at most some ring
\* position, GetNode returns the owner recorded for the smallest position
\* that is greater than or equal to the hash.
C6_FirstPositionAtOrAfter ==
    \A k \in Keys :
        LET above == {p \in Range(ring) : p >= hashKey(k)}
        IN  above # {} =>
              GetNode(ring, hashMap, k) = [node |-> hashMap[Min(above)], err |-> "nil"]

\* C6 witness: GetNode was called for a key whose hash equals a position
\* that is not the first of the ring, and returned that position's owner
C6_Witness ==
    /\ ret.op = "GetNode"
    /\ ret.err = "nil"
    /\ hashKey(ret.arg) \in Range(ring)
    /\ ring[1] < hashKey(ret.arg)
    /\ ret.node = hashMap[hashKey(ret.arg)]
    /\ ret.node # hashMap[ring[1]]

\* C7: for a non-empty ring, a key whose hash is greater than every position
\* in the ring resolves to the owner of the smallest position.
C7_WrapAround ==
    \A k \in Keys :
        (ring # <<>> /\ \A p \in Range(ring) : hashKey(k) > p) =>
            GetNode(ring, hashMap, k) =
                [node |-> hashMap[Min(Range(ring))], err |-> "nil"]

\* C7 witness: GetNode was called for a key hashed past the last position
\* and returned the owner of the first position, an Active node
C7_Witness ==
    /\ ret.op = "GetNode"
    /\ ring # <<>>
    /\ \A p \in Range(ring) : hashKey(ret.arg) > p
    /\ ret.node = hashMap[ring[1]]
    /\ ret.node \in DOMAIN nodes

\* C8: GetNode called while the ring holds no position returns the
\* empty-ring error and no node name, for every key, and changes no state.
C8_EmptyRing ==
    [][(ret'.op = "GetNode" /\ ring = <<>>) =>
          /\ ret'.node = ""
          /\ ret'.err = "no nodes in the ring"
          /\ UNCHANGED <<ring, hashMap, nodes, vnodes, crc, users, pc>>]_vars

\* C8 witness: GetNode has returned the empty-ring error
C8_Witness ==
    /\ ret.op = "GetNode"
    /\ ring = <<>>
    /\ ret.node = ""
    /\ ret.err = "no nodes in the ring"

\* C9: AddNode for a name that is already Active reports that the node
\* exists and leaves the ring, the owner map and every store as they were.
C9_AddExistingNode ==
    [][(ret'.op = "AddNode" /\ ret'.arg \in DOMAIN nodes) =>
          /\ ret'.err = "already exists"
          /\ UNCHANGED <<ring, hashMap, nodes>>]_vars

\* C9 witness: AddNode was refused for an Active node, which holds a record
\* and has exactly vnodes entries in the ring
C9_Witness ==
    /\ ret.op = "AddNode"
    /\ ret.err = "already exists"
    /\ ret.arg \in DOMAIN nodes
    /\ DOMAIN nodes[ret.arg] # {}
    /\ Cardinality({i \in DOMAIN ring : ring[i] \in Range(VNodeHashes(ret.arg))}) = vnodes

\* C10: RemoveNode for a name that is not Active returns the not-found error
\* and leaves the ring, the owner map and every store as they were.
C10_RemoveAbsentNode ==
    [][(ret'.op = "RemoveNode" /\ ret'.arg \notin DOMAIN nodes) =>
          /\ ret'.err = "not found"
          /\ UNCHANGED <<ring, hashMap, nodes>>]_vars

\* C10 witness: RemoveNode was refused for an Absent node while the cluster
\* holds records
C10_Witness ==
    /\ ret.op = "RemoveNode"
    /\ ret.err = "not found"
    /\ ret.arg \notin DOMAIN nodes
    /\ TotalRecords(nodes) > 0

\* C11: GetNode is a deterministic read.  A GetNode call changes neither the
\* ring, nor the owner map, nor any store, so every key resolves after the
\* call as it did before it; and a call that follows another GetNode call
\* for the same key returns the same node and the same error.
C11_GetNodeDeterministicRead ==
    [][ret'.op = "GetNode" =>
          /\ UNCHANGED <<ring, hashMap, nodes>>
          /\ \A k \in Keys :
                GetNode(ring', hashMap', k) = GetNode(ring, hashMap, k)
          /\ (ret.op = "GetNode" /\ ret.arg = ret'.arg) =>
                (ret'.node = ret.node /\ ret'.err = ret.err)]_vars

\* C11 witness: a GetNode call returned a node while the ring has at least
\* two positions and some other key resolves to a different node
C11_Witness ==
    /\ ret.op = "GetNode"
    /\ ret.err = "nil"
    /\ Cardinality(Range(ring)) >= 2
    /\ \E k \in Keys : GetNode(ring, hashMap, k).node # ret.node

\* C12: after every completed AddNode or RemoveNode (and after main's set-up)
\* the set of positions in the ring equals the key set of the owner map.
C12_RingMatchesOwnerMap == Range(ring) = DOMAIN hashMap

\* C12 witness: a RemoveNode call returned normally and left positions in the
\* ring
C12_Witness ==
    /\ ret.op = "RemoveNode"
    /\ ret.err = "nil"
    /\ ring # <<>>
    /\ DOMAIN hashMap # {}

\* C13: the ring holds no position twice, in every reachable state and for
\* every hash function, colliding ones included.
C13_NoDuplicatePosition ==
    \A i, j \in DOMAIN ring : i # j => ring[i] # ring[j]

\* C17: whenever at least one node is Active, GetNode succeeds for every key;
\* it signals the empty ring only in states where no node is Active.
C17_ActiveNodeMeansOwner ==
    DOMAIN nodes # {} =>
        \A k \in Keys : GetNode(ring, hashMap, k).err = "nil"

\* C18: an AddNode whose new node has a VNode position that is already in the
\* ring under a different owner is rejected as DuplicateVNode, and the owner
\* recorded for that position stays.
C18_DuplicateVNodeRejected ==
    [][(ret'.op = "AddNode" /\ ret'.arg \notin DOMAIN nodes) =>
          \A p \in Range(VNodeHashes(ret'.arg)) \cap DOMAIN hashMap :
              hashMap[p] # ret'.arg =>
                  /\ ret'.err = "DuplicateVNode"
                  /\ hashMap'[p] = hashMap[p]]_vars

\* C19: life cycle Absent -> Active -> Absent.  After a RemoveNode(X) that
\* returned normally X has no store, none of its VNode positions is in the
\* ring and no owner-map entry names X; an AddNode(X) for an Absent X
\* succeeds and leaves X with a store and with every one of its VNode
\* positions in the ring, owned by X.
C19_LifeCycle ==
    [][/\ (ret'.op = "RemoveNode" /\ ret'.err = "nil") =>
            LET X == ret'.arg
            IN  /\ X \notin DOMAIN nodes'
                /\ Range(ring') \cap Range(VNodeHashes(X)) = {}
                /\ \A p \in DOMAIN hashMap' : hashMap'[p] # X
       /\ (ret'.op = "AddNode" /\ ret'.arg \notin DOMAIN nodes) =>
            LET X == ret'.arg
            IN  /\ ret'.err = "nil"
                /\ X \in DOMAIN nodes'
                /\ \A i \in 0..(vnodes - 1) :
                      /\ hashKey(VNodeKey(X, i)) \in Range(ring')
                      /\ hashKey(VNodeKey(X, i)) \in DOMAIN hashMap'
                      /\ hashMap'[hashKey(VNodeKey(X, i))] = X]_vars

\* C19 witness: node-0, which main always sets up, was removed and has just
\* been added again; it took records back and other nodes are Active
C19_Witness ==
    /\ ret.op = "AddNode"
    /\ ret.err = "nil"
    /\ ret.arg = "node-0"
    /\ DOMAIN nodes["node-0"] # {}
    /\ Cardinality(DOMAIN nodes) >= 2

\* C20: AddNode(D) for an Absent D immediately followed by RemoveNode(D)
\* restores the cluster: RemoveNode returns normally and the ring, the owner
\* map and every node's store are what they were before AddNode(D).
C20_AddThenRemoveRestores ==
    pc = "running" =>
        \A D \in NodeNames \ DOMAIN nodes :
            LET a == AddNodeOn(ring, hashMap, nodes, D)
                b == RemoveNodeOn(a.ring, a.hashMap, a.nodes, D)
                restored == Redistribute(b.stores1, b.ring, b.hashMap,
                                         b.dataToMove, DOMAIN b.dataToMove)
            IN  /\ Homeless(b) = {}
                /\ b.ring = ring
                /\ b.hashMap = hashMap
                /\ restored = nodes
                /\ TotalRecords(restored) = TotalRecords(nodes)

\* the goroutines inside a membership operation: past the statement that
\* starts it and not yet returned
InMembershipOp == {t \in Threads : ops[t].pc \notin {"idle", "done"}}

\* C14: a GetNode call that runs while an AddNode or RemoveNode is under way
\* never finds a torn ring: in every state in which a reader can run the ring
\* is sorted and every position in it has an entry in the owner map.
C14_NoTornRing ==
    pc = "running" =>
        /\ \A i \in 1..(Len(ring) - 1) : ring[i] <= ring[i + 1]
        /\ \A i \in DOMAIN ring : ring[i] \in DOMAIN hashMap

\* C15: membership operations are mutually exclusive: while one AddNode or
\* RemoveNode is between its first statement and its return no other one
\* takes a step, so no two of them are under way in any state, and once all
\* have returned every record of the dataset is in exactly one store.
C15_MembershipMutuallyExclusive ==
    /\ Cardinality(InMembershipOp) <= 1
    /\ (pc = "running" /\ InMembershipOp = {}) =>
           \A k \in DOMAIN users : Cardinality(Loc(nodes, k)) = 1

\* C16: a caller that runs while a membership operation is under way sees the
\* cluster as it was before the operation or as it is after it: in no state
\* does GetNode name a node for a key while the key's record is stored on
\* another node or on no node.
C16_PreOrPostCluster ==
    pc = "running" =>
        \A k \in DOMAIN users :
            LET g == GetNode(ring, hashMap, k)
            IN  g.err = "nil" =>
                    /\ Loc(nodes, k) # {}
                    /\ \A n \in Loc(nodes, k) : n = g.node

\* the count a printed report gives for node n (nothing printed: 0)
Reported(report, n) == IF n \in DOMAIN report THEN report[n] ELSE 0

\* C21: the report of AddNode(Y) is exact: for each source node S the count
\* printed for S is the number of records the call removed from S's store,
\* and the printed total is the number of records in Y's store on return.
C21_AddReportExact ==
    [][(ret'.op = "AddNode" /\ ret'.err = "nil") =>
          LET Y == ret'.arg
          IN  /\ DOMAIN ret'.report \subseteq (DOMAIN nodes) \ {Y}
              /\ \A S \in DOMAIN nodes :
                    Reported(ret'.report, S) =
                        Cardinality((DOMAIN nodes[S]) \ DOMAIN nodes'[S])
              /\ ReportTotal(ret'.report) = Cardinality(DOMAIN nodes'[Y])]_vars

\* C21 witness: AddNode returned and reported two records moved
C21_Witness ==
    /\ ret.op = "AddNode"
    /\ ret.err = "nil"
    /\ ReportTotal(ret.report) >= 2
    /\ Cardinality(DOMAIN nodes[ret.arg]) >= 2

\* C22: the report of RemoveNode(X) is exact: for each destination node T the
\* count printed for T is the number of records the call added to T's store,
\* and the counts add up to the number of records X held when the call
\* started.
C22_RemoveReportExact ==
    [][(ret'.op = "RemoveNode" /\ ret'.err = "nil") =>
          LET X == ret'.arg
          IN  /\ DOMAIN ret'.report \subseteq DOMAIN nodes'
              /\ \A T \in DOMAIN nodes' :
                    Reported(ret'.report, T) =
                        Cardinality((DOMAIN nodes'[T]) \ DOMAIN nodes[T])
              /\ ReportTotal(ret'.report) = Cardinality(DOMAIN nodes[X])]_vars

\* C22 witness: RemoveNode returned and reported two records redistributed
C22_Witness ==
    /\ ret.op = "RemoveNode"
    /\ ret.err = "nil"
    /\ ReportTotal(ret.report) >= 2
    /\ DOMAIN nodes # {}

\* the dataset keys stored on the node GetNode names, and on no node
Matches == {k \in DOMAIN users : GetNode(ring, hashMap, k).node \in Loc(nodes, k)}
LostKeys == {k \in DOMAIN users : Loc(nodes, k) = {}}

\* C23 as stated: verifyKeys changes no state and reports three counts that
\* add up to the dataset size: the matches, the mismatches (keys stored on
\* another node) and the lost keys.
C23_VerifierThreeCounts ==
    [][ret'.op = "verifyKeys" =>
          LET v == ret'.report
          IN  /\ UNCHANGED <<ring, hashMap, nodes, users>>
              /\ v.correct = Cardinality(Matches)
              /\ v.incorrect = Cardinality((DOMAIN users) \ (Matches \cup LostKeys))
              /\ Cardinality(v.lost) = Cardinality(LostKeys)
              /\ v.correct + v.incorrect + Cardinality(v.lost)
                    = Cardinality(DOMAIN users)]_vars

\* C23 amended: verifyKeys changes no state, puts every dataset key in
\* exactly one of three classes and prints two counts that add up to the
\* dataset size: correct, and incorrect = mismatches + lost keys.  A key
\* printed as lost is in no store, a key printed as misplaced is in a store
\* of a node GetNode does not name, a key counted correct is in the store of
\* the node GetNode names.
C23_VerifierTwoCounts ==
    [][ret'.op = "verifyKeys" =>
          LET v       == ret'.report
              correct == (DOMAIN users) \ (v.lost \cup v.misplaced)
          IN  /\ UNCHANGED <<ring, hashMap, nodes, users>>
              /\ v.lost \cup v.misplaced \subseteq DOMAIN users
              /\ v.lost \cap v.misplaced = {}
              /\ v.correct = Cardinality(correct)
              /\ v.incorrect = Cardinality(v.lost) + Cardinality(v.misplaced)
              /\ v.correct + v.incorrect = Cardinality(DOMAIN users)
              /\ v.lost = LostKeys
              /\ \A k \in v.misplaced :
                    \E n \in Loc(nodes, k) : n # GetNode(ring, hashMap, k).node
              /\ correct \subseteq Matches]_vars

\* C23 witness: verifyKeys ran on a dataset of two records, one of them lost
\* and one on the node GetNode names
C23_Witness ==
    /\ ret.op = "verifyKeys"
    /\ Cardinality(DOMAIN users) = 2
    /\ ret.report.correct = 1
    /\ Cardinality(ret.report.lost) = 1
    /\ ret.report.incorrect = 1

\* C24: the Bloom filter has no false negative: Test returns true for every
\* item Add was called with, right after the Add and after any further Add
\* calls for other items; no step clears a bit that is set.
C24_NoFalseNegative ==
    [][/\ \A w \in DOMAIN bf.bitset : bf.bitset[w] \subseteq bf'.bitset[w]
       /\ \A x \in bfAdded' : Test(bf', x)
       /\ (bfRet'.op = "Test" /\ bfRet'.item \in bfAdded') => bfRet'.found]_vars

\* C24 witness: x was added, then y, and Test(x) has just returned true on a
\* filter with two hash rounds where x and y set different bits
C24_Witness ==
    /\ bfRet.op = "Test"
    /\ bfRet.item = "x"
    /\ bfRet.found
    /\ bfAdded = Items
    /\ bf.k = 2
    /\ \E i, j \in 0..1 : BitIndex(bf, "x", i) # BitIndex(bf, "y", j)

\* the shards that hold a document with this _id
ShardsHolding(id) == {i \in ShardIndexes : id \in DOMAIN shards[i]}

UsersNamed(name, is) ==
    {shards[i][id] : <<i, id>> \in
        {p \in is \X Ids : /\ p[2] \in DOMAIN shards[p[1]]
                           /\ shards[p[1]][p[2]].name = name}}

\* C26: GetUserByName responds only after every goroutine has finished, with
\* the users of that name of all shards, each once, and with 404 exactly when
\* no shard holds such a user.
C26_GatherAllShards ==
    [][(gather # NoGather /\ gather' = NoGather) =>
          /\ \A i \in GetAllShards : gather.g[i] = "done"
          /\ Range(resp'.body) = UsersNamed(gather.name, GetAllShards)
          /\ Len(resp'.body) = Cardinality(UsersNamed(gather.name, GetAllShards))
          /\ resp'.status = 404 <=> UsersNamed(gather.name, GetAllShards) = {}]_vars

\* C27: from the first GetNode of AddNode's scan until AddNode returns, the
\* ring is sorted, holds every VNode position of the new node, the owner map
\* names the new node for each of them, and neither ring nor owner map changes.
C27_ScanAgainstFinalRing ==
    [][\A t \in Threads : ops[t].pc \in {"scan", "move"} =>
          /\ \A i, j \in 1..Len(ring) : i < j => ring[i] <= ring[j]
          /\ \A h \in Range(VNodeHashes(ops[t].name)) :
                /\ h \in Range(ring)
                /\ h \in DOMAIN hashMap
                /\ hashMap[h] = ops[t].name
          /\ ring' = ring
          /\ hashMap' = hashMap]_vars

\* an AddNode is moving keys, and the position of its VNode was appended
\* behind a larger one
C27_Witness ==
    \E t \in Threads :
        /\ ops[t].pc = "move"
        /\ ops[t].moves # {}
        /\ ring[Len(ring)] > hashKey(VNodeKey(ops[t].name, 0))

\* C28: AddNode changes no store while it extends the ring and scans; once
\* the pending moves are recorded none is added, every change of a store is
\* the move of one recorded (source, key) pair to the new node, and AddNode
\* returns only when every recorded pair has been moved.
C28_MovesRecordedBeforeApplied ==
    [][\A t \in Threads :
          /\ ops[t].pc \in {"append", "owner", "sort", "scan"} => nodes' = nodes
          /\ (ops[t].pc = "move" /\ nodes' # nodes) =>
                \E m \in ops[t].moves :
                    /\ ops'[t].moves = ops[t].moves \ {m}
                    /\ nodes' = [nodes EXCEPT
                                   ![ops[t].name] = MapPut(@, m[2], nodes[m[1]][m[2]]),
                                   ![m[1]] = MapDelete(@, m[2])]
          /\ (ops[t].pc = "move" /\ nodes' = nodes) => ops'[t].moves \subseteq ops[t].moves
          /\ (ops[t].pc = "move" /\ ops'[t].pc = "done") => ops[t].moves = {}]_vars

\* an AddNode has applied one recorded move and has another one pending
C28_Witness ==
    \E t \in Threads :
        /\ ops[t].pc = "move"
        /\ ops[t].moves # {}
        /\ ops[t].report # EmptyMap

\* C29: RemoveNode changes no store while it takes the node's positions off
\* the ring, so the records it goes on to redistribute are those the node
\* held before the ring changed; every record it re-homes is one of them,
\* placed by a GetNode on a ring and an owner map that hold nothing of the
\* removed node and are not changed again, so never on the removed node; and
\* RemoveNode returns only when each of them has been re-homed.
C29_RehomedAfterRingChange ==
    [][\A t \in Threads :
          /\ ops[t].pc \in {"unmap", "ring"} => nodes' = nodes
          /\ ops[t].pc = "delete" =>
                /\ ops'[t].data = nodes[ops[t].name]
                /\ ops'[t].todo = DOMAIN nodes[ops[t].name]
                /\ nodes' = MapDelete(nodes, ops[t].name)
          /\ ops[t].pc = "loop" =>
                /\ ring' = ring
                /\ hashMap' = hashMap
                /\ ops'[t].pc # "done" => ops'[t].data = ops[t].data
          /\ (ops[t].pc = "loop" /\ nodes' # nodes) =>
                /\ Range(VNodeHashes(ops[t].name)) \cap Range(ring) = {}
                /\ \A h \in DOMAIN hashMap : hashMap[h] # ops[t].name
                /\ \E key \in ops[t].todo :
                     LET newNode == GetNode(ring, hashMap, key).node
                     IN  /\ newNode # ops[t].name
                         /\ newNode \in DOMAIN nodes
                         /\ nodes' = [nodes EXCEPT ![newNode] =
                                         MapPut(@, key, ops[t].data[key])]
                         /\ ops'[t].todo = ops[t].todo \ {key}
          /\ (ops[t].pc = "loop" /\ ops'[t].pc = "done") => ops[t].todo = {}]_vars

\* a RemoveNode has re-homed one record and has another one to re-home
C29_Witness ==
    \E t \in Threads :
        /\ ops[t].pc = "loop"
        /\ ops[t].todo # {}
        /\ ops[t].report # EmptyMap

\* C30: a RemoveNode of an Active node, the only one included, does not fail:
\* for every record of the snapshot the destination GetNode names is an Active
\* node with a registered store, and the record is in that store afterwards.
C30_SnapshotAlwaysRehomed ==
    [][(ret'.op = "RemoveNode" /\ ret'.arg \in DOMAIN nodes) =>
          /\ pc' = "running"
          /\ ret'.err = "nil"
          /\ \A key \in DOMAIN nodes[ret'.arg] :
                LET newNode == GetNode(ring', hashMap', key).node
                IN  /\ newNode \in DOMAIN nodes'
                    /\ key \in DOMAIN nodes'[newNode]
                    /\ nodes'[newNode][key] = nodes[ret'.arg][key]]_vars

\* the positions whose recorded owner is the node
OwnedBy(hm, nodeName) == {p \in DOMAIN hm : hm[p] = nodeName}

\* C31: RemoveNode(X) of an Active X takes out of the ring and out of the
\* owner map exactly the positions whose recorded owner is X; every other
\* position stays in the ring, in its place, with its owner entry.
C31_RemovesOnlyOwnPositions ==
    [][(ret'.op = "RemoveNode" /\ ret'.arg \in DOMAIN nodes) =>
          /\ DOMAIN hashMap' = (DOMAIN hashMap) \ OwnedBy(hashMap, ret'.arg)
          /\ \A p \in DOMAIN hashMap' : hashMap'[p] = hashMap[p]
          /\ ring' = SelectSeq(ring, LAMBDA p : p \notin OwnedBy(hashMap, ret'.arg))]_vars

\* C32: after main's set-up and after every AddNode or RemoveNode the ring is
\* sorted in non-decreasing order of position.
C32_RingSortedAfterMembership ==
    \A i, j \in DOMAIN ring : i < j => ring[i] <= ring[j]

\* an AddNode returned whose position was appended behind a larger one, and a
\* RemoveNode returned that left two positions in the ring
C32_Witness ==
    \/ /\ ret.op = "AddNode"
       /\ ret.err = "nil"
       /\ ring[Len(ring)] > hashKey(VNodeKey(ret.arg, 0))
    \/ /\ ret.op = "RemoveNode"
       /\ ret.err = "nil"
       /\ Len(ring) >= 2
       /\ ring[1] < ring[Len(ring)]

\* C33: between membership operations every owner recorded in the owner map
\* is a node with a store entry, and a GetNode that succeeds names such a node.
C33_OwnersAreActive ==
    pc = "running" =>
        /\ \A p \in DOMAIN hashMap : hashMap[p] \in DOMAIN nodes
        /\ \A key \in Keys :
              GetNode(ring, hashMap, key).err = "nil" =>
                  GetNode(ring, hashMap, key).node \in DOMAIN nodes

\* a RemoveNode returned and left another node's positions in the ring
C33_Witness ==
    /\ ret.op = "RemoveNode"
    /\ ret.err = "nil"
    /\ DOMAIN hashMap # {}
    /\ ret.arg \notin DOMAIN nodes
    /\ \E key \in Keys : GetNode(ring, hashMap, key).node \in DOMAIN nodes

\* the stores once every pending (source, key) move of an AddNode is applied
AfterMoves(stores, moves, nodeName) ==
    ApplyMoves(stores,
               [s \in {m[1] : m \in moves} |-> {m[2] : m \in {x \in moves : x[1] = s}}],
               nodeName)

\* C34: whichever pending move AddNode applies next and whichever record
\* RemoveNode re-homes next, the cluster the call ends in is the same: the
\* ring and the owner map do not change during the loops, the stores that
\* result from applying all that is still pending are the same before and
\* after every round, and a RemoveNode that panics does so in its first round
\* whatever the order, because then no record of the snapshot has a destination.
C34_OrderIndependent ==
    [][\A t \in Threads :
          /\ ops[t].pc = "move" =>
                /\ ring' = ring
                /\ hashMap' = hashMap
                /\ AfterMoves(nodes', ops'[t].moves, ops[t].name)
                      = AfterMoves(nodes, ops[t].moves, ops[t].name)
          /\ (ops[t].pc = "loop" /\ pc' = "running") =>
                /\ ring' = ring
                /\ hashMap' = hashMap
                /\ Redistribute(nodes', ring', hashMap', ops[t].data, ops'[t].todo)
                      = Redistribute(nodes, ring, hashMap, ops[t].data, ops[t].todo)
          /\ (ops[t].pc = "loop" /\ pc' = "panicked") =>
                /\ ops[t].todo = DOMAIN ops[t].data
                /\ \A key \in ops[t].todo :
                      GetNode(ring, hashMap, key).node \notin DOMAIN nodes]_vars

\* an AddNode has two moves pending, or a RemoveNode two records to re-home:
\* the map iteration can take either first
C34_Witness ==
    \E t \in Threads :
        \/ ops[t].pc = "move" /\ Cardinality(ops[t].moves) >= 2
        \/ ops[t].pc = "loop" /\ Cardinality(ops[t].todo) >= 2 /\ ring # <<>>

\* AddNode(first) followed by AddNode(second), both names without a store
AddBoth(first, second) ==
    LET a == AddNodeOn(ring, hashMap, nodes, first)
    IN  AddNodeOn(a.ring, a.hashMap, a.nodes, second)

\* C35: for two Absent nodes X and Y, AddNode(X) then AddNode(Y) leaves the
\* same ring, owner map and stores as AddNode(Y) then AddNode(X).
C35_JoinOrderIrrelevant ==
    pc = "running" =>
        \A X, Y \in NodeNames \ DOMAIN nodes :
            X # Y =>
                /\ AddBoth(X, Y).ring = AddBoth(Y, X).ring
                /\ AddBoth(X, Y).hashMap = AddBoth(Y, X).hashMap
                /\ AddBoth(X, Y).nodes = AddBoth(Y, X).nodes

\* C36: in both rate limiters the queue never holds more packets than its
\* capacity, AddPacket always returns, it returns false exactly when the
\* queue is full when it is called and then leaves the queue as it is, and
\* otherwise the packet is appended, wherever the draining goroutine stands.
C36_QueueBounded ==
    [][/\ (lb # NoBucket => Len(lb.queue) <= lb.capacity)
       /\ (tb # NoBucket => Len(tb.packetQueue) <= tb.queueCapacity)
       /\ \A packetID \in Packets :
             /\ lb # NoBucket => ENABLED LeakyAddPacket(packetID)
             /\ tb # NoBucket => ENABLED TokenAddPacket(packetID)
             /\ LeakyAddPacket(packetID) =>
                   /\ out'.ok = (Len(lb.queue) < lb.capacity)
                   /\ lb'.queue = IF out'.ok THEN Append(lb.queue, packetID)
                                  ELSE lb.queue
             /\ TokenAddPacket(packetID) =>
                   /\ out'.ok = (Len(tb.packetQueue) < tb.queueCapacity)
                   /\ tb'.packetQueue = IF out'.ok
                                        THEN Append(tb.packetQueue, packetID)
                                        ELSE tb.packetQueue]_vars

\* an AddPacket of the token bucket was refused on a full queue while the
\* processor holds a packet it has taken from the queue
C36_Witness ==
    /\ tb # NoBucket
    /\ out.op = "TokenBucket.AddPacket"
    /\ ~out.ok
    /\ Len(tb.packetQueue) = tb.queueCapacity
    /\ tb.pc = "got"

\* C37: the token count of the token bucket is within 0..capacity in every
\* reachable state.
C37_TokensWithinCapacity ==
    tb # NoBucket => tb.tokens \in 0..tb.capacity

\* a packet was sent and a later refill, computed from the time elapsed, has
\* filled the bucket up to its capacity again
C37_Witness ==
    /\ tb # NoBucket
    /\ out.op = "sent"
    /\ tb.pc = "select"
    /\ tb.elapsed = 0
    /\ tb.tokens = tb.capacity

\* C38: every packet the processor has taken from the queue is sent and
\* consumes exactly one token: none is dropped after AddPacket accepted it.
C38_TakenPacketsAreSent ==
    [][(tb # NoBucket /\ tb.pc = "got" /\ tb'.pc = "tick") =>
          /\ tb'.tokens = tb.tokens - 1
          /\ tb.tokens >= 1
          /\ out' = Out("sent", tb.packet, TRUE)]_vars

====
